---------------------------- MODULE Spec2Model ----------------------------
(***************************************************************************)
(* A model of the two tutorial extension modules of the package template:  *)
(*   tutorial/ndarray.cpp  (module _ndarray)                               *)
(*   tutorial/eigen.cpp    (module _eigen)                                 *)
(*                                                                         *)
(* Two state machines share the module.                                    *)
(*   Spec      the functions that read and write the elements of an array  *)
(*             handed in by the caller: process_rgb_image, the three       *)
(*             fill_array_* functions and map_matrix.                      *)
(*   SpecLife  the functions that hand storage out to the caller           *)
(*             (create_2d_array, return_multiple_arrays, matrix4f_view,    *)
(*             return_vec3) and the caller's later use and release of it.  *)
(*                                                                         *)
(* float32 cells are held in fixed point, as a number of halves: the only  *)
(* float arithmetic of the sources is float(i*j), + 0.5f and * 2.0f, all   *)
(* of them exact in this representation for the values that occur.         *)
(* Cells of the integer element types hold the integer itself.             *)
(***************************************************************************)
EXTENDS Integers, Sequences, FiniteSets

VARIABLES
    arr,        \* the array handed to the function: its descriptor
    mem,        \* the memory arr.data points into, cell by cell
    old,        \* mem as it was when the last call started
    result,     \* what the last call returned or threw
    last,       \* the function called last
    accesses,   \* loop bodies (indexed accesses) the last call executed
    calls,      \* calls made so far
    objs,       \* the host runtime's objects, by id
    store,      \* every storage region, by id: "live" or "freed"
    deadReads   \* reads made of storage that was no longer live

fillVars == <<arr, mem, old, result, last, accesses, calls>>
lifeVars == <<objs, store, deadReads>>
vars == <<arr, mem, old, result, last, accesses, calls,
          objs, store, deadReads>>

---------------------------------------------------------------------------
(* Bounds of the model. *)

MaxExtent == 2      \* extents of an axis run over 0..MaxExtent (and 3)
MaxNdim == 3        \* arrays have 0..MaxNdim axes
Slack == 2          \* cells of memory that follow the array's buffer
MaxCalls == 2       \* calls made on one array
MaxObjs == 5        \* objects the host runtime creates in one run
MaxDeadReads == 2   \* reads of dead storage that are counted

(* Program constants. *)

RGBChannels == 3    \* nb::shape<-1, -1, 3>
UInt8Max == 255     \* std::min(255, ...)
FloatScale == 2     \* 0.5f is one unit of the fixed-point float cells

---------------------------------------------------------------------------
(* Descriptors *)

Dtypes == {"float32", "int32", "uint8", "float64"}
Devices == {"cpu", "cuda"}
Extents == (0 .. MaxExtent) \cup {RGBChannels}

RECURSIVE Product(_)
Product(s) == IF s = <<>> THEN 1 ELSE Head(s) * Product(Tail(s))

Shapes == UNION {[1 .. n -> Extents] : n \in 0 .. MaxNdim}

\* Row-major packing: the last axis varies fastest.
CStrides(shape) ==
    [k \in 1 .. Len(shape) |-> Product(SubSeq(shape, k + 1, Len(shape)))]

\* Column-major packing: the first axis varies fastest.
FStrides(shape) ==
    [k \in 1 .. Len(shape) |-> Product(SubSeq(shape, 1, k - 1))]

\* The shape of the parent a strided array is cut from: one more column.
Parent(shape) ==
    [k \in 1 .. Len(shape) |->
        IF k = Len(shape) THEN shape[k] + 1 ELSE shape[k]]

\* A slice [..., :n] of a row-major parent: rows are one element apart.
SlicedStrides(shape) == CStrides(Parent(shape))

Float(n) == n * FloatScale
Half == FloatScale \div 2

\* nb::ndarray::operator(): the offset of an index tuple, in elements.
RECURSIVE Dot(_, _)
Dot(idx, strides) ==
    IF idx = <<>> THEN 0
    ELSE Head(idx) * Head(strides) + Dot(Tail(idx), Tail(strides))

Offset(d, idx) == d.data + Dot(idx, d.strides)

\* The cells that are elements of the array.
Elements(d) ==
    {Offset(d, idx) : idx \in {i \in [1 .. d.ndim -> 0 .. (MaxExtent + RGBChannels)] :
                                  \A k \in 1 .. d.ndim : i[k] < d.shape[k]}}

HasZeroExtent(d) == \E k \in 1 .. d.ndim : d.shape[k] = 0

---------------------------------------------------------------------------
(* What each signature declares of the array it takes.  The binding layer  *)
(* admits a call only with an array the declaration describes.             *)

c_contig(d) == d.strides = CStrides(d.shape)

\* using RGBImage = nb::ndarray<uint8_t, nb::shape<-1, -1, 3>, nb::device::cpu>
RGBImage(d) ==
    /\ d.dtype = "uint8"
    /\ d.ndim = 3
    /\ d.shape[3] = RGBChannels
    /\ d.device = "cpu"

\* nb::ndarray<float, nb::ndim<2>, nb::c_contig, nb::device::cpu>
Float2DContig(d) ==
    /\ d.dtype = "float32"
    /\ d.ndim = 2
    /\ c_contig(d)
    /\ d.device = "cpu"

\* nb::ndarray<nb::c_contig, nb::device::cpu>
AnyContig(d) == c_contig(d) /\ d.device = "cpu"

\* nb::ndarray<float>
FloatAny(d) == d.dtype = "float32"

---------------------------------------------------------------------------
(* Loops *)

\* The same loops with <= for <.
Loop2Inclusive(n0, n1) ==
    [k \in 1 .. ((n0 + 1) * (n1 + 1)) |->
        <<(k - 1) \div (n1 + 1), (k - 1) % (n1 + 1)>>]

\* for (i = 0; i < n0; ++i) for (j = 0; j < n1; ++j): the index pairs, in
\* the order the loop visits them.
Loop2(n0, n1) ==
    [k \in 1 .. (n0 * n1) |-> <<(k - 1) \div n1, (k - 1) % n1>>]

\* for y < n0, for x < n1, for ch < n2.
Loop3(n0, n1, n2) ==
    [k \in 1 .. (n0 * n1 * n2) |->
        <<(k - 1) \div (n1 * n2), ((k - 1) \div n2) % n1, (k - 1) % n2>>]

Min(a, b) == IF a < b THEN a ELSE b

\* view(i, j) = static_cast<float>(i * j)
ProductPattern(i, j) == Float(i * j)

\* The float branch without its offset, as fill_array_optimized fills.
FloatPatternNoOffset(i, j) == Float(i * j)

\* view(i, j) = static_cast<float>(i * j) + 0.5f
FloatPattern(i, j) == Float(i * j) + Half

\* view(i, j) = static_cast<int32_t>(i + j)
IntPattern(i, j) == i + j

\* (uint8_t) std::min(255, data(y, x, ch) * 2)
Brighten(v) == Min(UInt8Max, v * 2)

RECURSIVE FillProduct(_, _, _)
FillProduct(m, d, idxs) ==
    IF idxs = <<>> THEN m
    ELSE LET ij == Head(idxs)
         IN  FillProduct([m EXCEPT ![Offset(d, ij)] = ProductPattern(ij[1], ij[2])],
                         d, Tail(idxs))

RECURSIVE FillFloat(_, _, _)
FillFloat(m, d, idxs) ==
    IF idxs = <<>> THEN m
    ELSE LET ij == Head(idxs)
         IN  FillFloat([m EXCEPT ![Offset(d, ij)] = FloatPattern(ij[1], ij[2])],
                       d, Tail(idxs))

RECURSIVE FillInt(_, _, _)
FillInt(m, d, idxs) ==
    IF idxs = <<>> THEN m
    ELSE LET ij == Head(idxs)
         IN  FillInt([m EXCEPT ![Offset(d, ij)] = IntPattern(ij[1], ij[2])],
                     d, Tail(idxs))

RECURSIVE BrightenAll(_, _, _)
BrightenAll(m, d, idxs) ==
    IF idxs = <<>> THEN m
    ELSE LET o == Offset(d, Head(idxs))
         IN  BrightenAll([m EXCEPT ![o] = Brighten(m[o])], d, Tail(idxs))

\* Eigen::Map<Eigen::MatrixXf> mat(data, rows, cols); mat *= 2.0f:
\* the map is a packed rows x cols block starting at data.
MapCells(d) == {d.data + k : k \in 0 .. (d.shape[1] * d.shape[2] - 1)}

MapTimesTwo(m, d) ==
    [o \in DOMAIN m |-> IF o \in MapCells(d) THEN m[o] * 2 ELSE m[o]]

---------------------------------------------------------------------------
(* fill_array_specialized: the branch taken *)

\* The first test without its dtype half.
specializeNdimOnly(dtype, ndim) ==
    IF ndim = 2 THEN "float2"
    ELSE IF dtype = "int32" /\ ndim = 2 THEN "int2"
    ELSE "unsupported"

specialize(dtype, ndim) ==
    IF dtype = "float32" /\ ndim = 2 THEN "float2"
    ELSE IF dtype = "int32" /\ ndim = 2 THEN "int2"
    ELSE "unsupported"

SpecializedResult(tag) ==
    CASE tag = "float2" -> "Used specialized 2D float view"
      [] tag = "int2" -> "Used specialized 2D int32 view"
      [] OTHER -> "Unsupported array type or dimension"

---------------------------------------------------------------------------
(* Initial states of Spec: any array, over memory that holds it. *)

Bases == {1, 120}

Layouts == {"C", "F", "sliced"}

StridesOf(layout, shape) ==
    CASE layout = "C" -> CStrides(shape)
      [] layout = "F" -> FStrides(shape)
      [] OTHER -> SlicedStrides(shape)

Descriptors ==
    {[dtype |-> t, device |-> v, ndim |-> Len(s), shape |-> s,
      strides |-> StridesOf(l, s), data |-> 0] :
        t \in Dtypes, v \in Devices, s \in Shapes, l \in Layouts}

\* Room for the parent of a sliced array, and the cells that follow it.
MemSize(d) == Product(Parent(d.shape)) + Slack

\* The program holds no object and no storage before SpecLife's calls.
NoObjects == <<>>
NoStorage == <<>>

InitFill ==
    /\ arr \in Descriptors
    /\ \E base \in Bases : mem = [o \in 0 .. (MemSize(arr) - 1) |-> base + o]
    /\ old = mem
    /\ result = "none"
    /\ last = "none"
    /\ accesses = 0
    /\ calls = 0

Init ==
    /\ InitFill
    /\ objs = NoObjects
    /\ store = NoStorage
    /\ deadReads = 0

---------------------------------------------------------------------------
(* The functions of Spec.  Each is enabled on the arrays its signature     *)
(* describes and is one step: the whole call.                              *)

Returned(name, value, m, n) ==
    /\ mem' = m
    /\ old' = mem
    /\ result' = value
    /\ last' = name
    /\ accesses' = n
    /\ calls' = calls + 1
    /\ UNCHANGED <<arr, objs, store, deadReads>>

process_rgb_image ==
    /\ calls < MaxCalls
    /\ RGBImage(arr)
    /\ LET idxs == Loop3(arr.shape[1], arr.shape[2], RGBChannels)
       IN  Returned("process_rgb_image", "void",
                    BrightenAll(mem, arr, idxs), Len(idxs))

fill_array_optimized ==
    /\ calls < MaxCalls
    /\ Float2DContig(arr)
    /\ LET idxs == Loop2(arr.shape[1], arr.shape[2])
       IN  Returned("fill_array_optimized", "void",
                    FillProduct(mem, arr, idxs), Len(idxs))

fill_array_regular ==
    /\ calls < MaxCalls
    /\ Float2DContig(arr)
    /\ LET idxs == Loop2(arr.shape[1], arr.shape[2])
       IN  Returned("fill_array_regular", "void",
                    FillProduct(mem, arr, idxs), Len(idxs))

fill_array_specialized ==
    /\ calls < MaxCalls
    /\ AnyContig(arr)
    /\ LET tag == specialize(arr.dtype, arr.ndim)
       IN  CASE tag = "float2" ->
                  LET idxs == Loop2(arr.shape[1], arr.shape[2])
                  IN  Returned("fill_array_specialized", SpecializedResult(tag),
                               FillFloat(mem, arr, idxs), Len(idxs))
             [] tag = "int2" ->
                  LET idxs == Loop2(arr.shape[1], arr.shape[2])
                  IN  Returned("fill_array_specialized", SpecializedResult(tag),
                               FillInt(mem, arr, idxs), Len(idxs))
             [] OTHER ->
                  Returned("fill_array_specialized", SpecializedResult(tag),
                           mem, 0)

map_matrix ==
    /\ calls < MaxCalls
    /\ FloatAny(arr)
    /\ IF arr.ndim # 2
       THEN Returned("map_matrix", "Expected a 2D array", mem, 0)
       ELSE Returned("map_matrix", "void", MapTimesTwo(mem, arr),
                     arr.shape[1] * arr.shape[2])

Next ==
    \/ process_rgb_image
    \/ fill_array_optimized
    \/ fill_array_regular
    \/ fill_array_specialized
    \/ map_matrix

Spec == Init /\ [][Next]_vars

---------------------------------------------------------------------------
(* SpecLife: storage handed out to the caller.                             *)
(*                                                                         *)
(* objs is the host runtime's heap: capsules, arrays, Matrix4f instances   *)
(* and the tuple return_multiple_arrays builds.  An object lives while its *)
(* reference count rc is positive; refs are the objects it holds a         *)
(* reference to (an array: its owner, or the array it is a view of);       *)
(* handle says that the caller's program holds the object in a variable.   *)
(* store is the storage the objects' data pointers refer to.               *)

Capsule(ctx) ==
    [kind |-> "capsule", rc |-> 1, refs |-> {}, data |-> ctx,
     handle |-> FALSE, owns |-> TRUE, alive |-> TRUE, released |-> 0]

Object(kind, refs, data, handle, owns) ==
    [kind |-> kind, rc |-> 1, refs |-> refs, data |-> data,
     handle |-> handle, owns |-> owns, alive |-> TRUE, released |-> 0]

IncRef(os, id) == [os EXCEPT ![id].rc = @ + 1]

\* Dropping one reference.  The last one deallocates the object: a capsule
\* runs its deleter on its context (delete[] (float *) p, delete
\* static_cast<SharedArrays *>(p)), an object that owns its storage gives it
\* up, and the references the object held are dropped in turn.
RECURSIVE DecRef(_, _, _)
RECURSIVE DecRefAll(_, _, _)
DecRef(os, st, id) ==
    LET o == os[id]
    IN  IF o.rc > 1
        THEN <<[os EXCEPT ![id].rc = o.rc - 1], st>>
        ELSE LET os1 == [os EXCEPT
                            ![id].rc = 0,
                            ![id].alive = FALSE,
                            ![id].released =
                                IF o.kind = "capsule" THEN @ + 1 ELSE @]
                 st1 == IF o.owns THEN [st EXCEPT ![o.data] = "freed"] ELSE st
             IN  DecRefAll(os1, st1, o.refs)

DecRefAll(os, st, ids) ==
    IF ids = {} THEN <<os, st>>
    ELSE LET id == CHOOSE x \in ids : TRUE
             r == DecRef(os, st, id)
         IN  DecRefAll(r[1], r[2], ids \ {id})

\* nb::ndarray(data, shape, owner) handed to the caller: an array object over
\* data that keeps a reference to its owner (0: no owner given).
ExportArray(os, data, owner, handle) ==
    IF owner = 0
    THEN Append(os, Object("ndarray", {}, data, handle, FALSE))
    ELSE Append(IncRef(os, owner), Object("ndarray", {owner}, data, handle, FALSE))

\* The second array built without its owner argument.
MultipleOwnersFirstOnly(deleter) == <<deleter, 0>>

\* The owner arguments of the two arrays return_multiple_arrays builds.
MultipleOwners(deleter) == <<deleter, deleter>>

\* float data[] { 1, 2, 3 }; return Vector3f(data): the descriptor returned
\* and the storage as the return leaves it.
return_vec3(st) ==
    LET frame == Len(st) + 1
    IN  [desc |-> [data |-> frame, owner |-> 0],
         store |-> [Append(st, "live") EXCEPT ![frame] = "freed"]]

Live(st, s) == st[s] = "live"

CountDeadRead(n, dead) ==
    IF dead /\ n < MaxDeadReads THEN n + 1 ELSE n

InitLife ==
    /\ arr = [dtype |-> "float32", device |-> "cpu", ndim |-> 0,
              shape |-> <<>>, strides |-> <<>>, data |-> 0]
    /\ mem = [o \in 0 .. (MemSize(arr) - 1) |-> o]
    /\ old = mem
    /\ result = "none"
    /\ last = "none"
    /\ accesses = 0
    /\ calls = 0
    /\ objs = NoObjects
    /\ store = NoStorage
    /\ deadReads = 0

\* create_2d(rows, cols).  rows and cols size the buffer and its contents;
\* they do not enter its lifetime.
create_2d_array ==
    /\ Len(objs) + 2 <= MaxObjs
    /\ LET data == Len(store) + 1              \* new float[rows * cols]
           st1 == Append(store, "live")
           owner == Len(objs) + 1              \* nb::capsule owner(data, ...)
           os1 == Append(objs, Capsule(data))
           os2 == ExportArray(os1, data, owner, TRUE)
           r == DecRef(os2, st1, owner)        \* the local owner ends
       IN  /\ objs' = r[1]
           /\ store' = r[2]
    /\ UNCHANGED <<deadReads, arr, mem, old, result, last, accesses, calls>>

\* return_multiple().  The two vectors live inside *shared and go with it:
\* they are one storage region.
return_multiple_arrays ==
    /\ Len(objs) + 4 <= MaxObjs
    /\ LET shared == Len(store) + 1            \* new SharedArrays()
           st1 == Append(store, "live")
           deleter == Len(objs) + 1            \* nb::capsule deleter(shared, ...)
           os1 == Append(objs, Capsule(shared))
           owners == MultipleOwners(deleter)
           os2 == ExportArray(os1, shared, owners[1], FALSE)
           os3 == ExportArray(os2, shared, owners[2], FALSE)
           os4 == Append(os3, Object("tuple", {deleter + 1, deleter + 2},
                                     0, TRUE, FALSE))
           r == DecRef(os4, st1, deleter)      \* the local deleter ends
       IN  /\ objs' = r[1]
           /\ store' = r[2]
    /\ UNCHANGED <<deadReads, arr, mem, old, result, last, accesses, calls>>

\* Matrix4f(): nb::init<>(); the instance holds float m[4][4] itself.
Matrix4f ==
    /\ Len(objs) + 1 <= MaxObjs
    /\ objs' = Append(objs, Object("Matrix4f", {}, Len(store) + 1, TRUE, TRUE))
    /\ store' = Append(store, "live")
    /\ UNCHANGED <<deadReads, arr, mem, old, result, last, accesses, calls>>

\* Matrix4f.view(), bound with nb::rv_policy::reference_internal: the array
\* over matrix.m keeps the instance alive.
matrix4f_view ==
    /\ Len(objs) + 1 <= MaxObjs
    /\ \E m \in DOMAIN objs :
          /\ objs[m].kind = "Matrix4f"
          /\ objs[m].handle
          /\ objs' = ExportArray(objs, objs[m].data, m, TRUE)
    /\ UNCHANGED <<store, deadReads, arr, mem, old, result, last, accesses, calls>>

\* The return_vec3 binding: Vector3f result = return_vec3(); return
\* result.cast().  The cast converts the array to an object of the host
\* runtime, reading it through result's data pointer.
return_vec3_binding ==
    /\ Len(objs) + 1 <= MaxObjs
    /\ LET ret == return_vec3(store)
           copy == Len(ret.store) + 1
       IN  /\ deadReads' =
                 CountDeadRead(deadReads, ~Live(ret.store, ret.desc.data))
           /\ store' = Append(ret.store, "live")
           /\ objs' = Append(objs, Object("ndarray", {}, copy, TRUE, TRUE))
    /\ UNCHANGED <<arr, mem, old, result, last, accesses, calls>>

---------------------------------------------------------------------------
(* The caller's side: what the host program does with what it was handed.  *)

\* t[i]: the caller takes an element of the tuple into a variable.
GetItem ==
    /\ \E t \in DOMAIN objs, a \in DOMAIN objs :
          /\ objs[t].kind = "tuple"
          /\ objs[t].handle
          /\ a \in objs[t].refs
          /\ ~objs[a].handle
          /\ objs' = [IncRef(objs, a) EXCEPT ![a].handle = TRUE]
    /\ UNCHANGED <<store, deadReads, arr, mem, old, result, last, accesses, calls>>

\* a[...]: a view of an array; it refers to the array it was taken from.
Slice ==
    /\ Len(objs) + 1 <= MaxObjs
    /\ \E a \in DOMAIN objs :
          /\ objs[a].kind = "ndarray"
          /\ objs[a].handle
          /\ objs' = ExportArray(objs, objs[a].data, a, TRUE)
    /\ UNCHANGED <<store, deadReads, arr, mem, old, result, last, accesses, calls>>

\* The caller reads an element of an array it holds.
Read ==
    /\ \E a \in DOMAIN objs :
          /\ objs[a].kind = "ndarray"
          /\ objs[a].handle
          /\ deadReads' = CountDeadRead(deadReads, ~Live(store, objs[a].data))
    /\ UNCHANGED <<objs, store, arr, mem, old, result, last, accesses, calls>>

\* del x: the caller lets go of an object it holds.
Drop ==
    /\ \E o \in DOMAIN objs :
          /\ objs[o].handle
          /\ LET r == DecRef([objs EXCEPT ![o].handle = FALSE], store, o)
             IN  /\ objs' = r[1]
                 /\ store' = r[2]
    /\ UNCHANGED <<deadReads, arr, mem, old, result, last, accesses, calls>>

NextLife ==
    \/ create_2d_array
    \/ return_multiple_arrays
    \/ Matrix4f
    \/ matrix4f_view
    \/ return_vec3_binding
    \/ GetItem
    \/ Slice
    \/ Read
    \/ Drop

SpecLife == InitLife /\ [][NextLife]_vars

---------------------------------------------------------------------------
(* Properties *)

Capsules == {c \in DOMAIN objs : objs[c].kind = "capsule"}

\* The live arrays, exported or derived, whose data lies in c's storage.
Holders(c) ==
    {a \in DOMAIN objs :
        /\ objs[a].kind = "ndarray"
        /\ objs[a].alive
        /\ objs[a].data = objs[c].data}

\* C1: a capsule's release callback has run at most once; it has run
\* exactly when no array over its storage is left, whatever the order of the
\* drops; and the storage is allocated exactly as long as it has not run.
C1_ReleaseOnceAtLastDrop ==
    \A c \in Capsules :
        /\ objs[c].released <= 1
        /\ objs[c].released = 1 <=> Holders(c) = {}
        /\ Live(store, objs[c].data) <=> objs[c].released = 0

\* C1 witness: of two arrays sharing one capsule the first is gone, the
\* second is held by the caller, and the storage is still allocated.
C1_FirstDroppedSecondReadable ==
    \E c \in Capsules : \E a, b \in DOMAIN objs :
        /\ a # b
        /\ objs[a].kind = "ndarray" /\ objs[a].refs = {c} /\ ~objs[a].alive
        /\ objs[b].kind = "ndarray" /\ objs[b].refs = {c}
        /\ objs[b].alive /\ objs[b].handle
        /\ objs[c].released = 0
        /\ Live(store, objs[c].data)

\* The 2 x 2 array as rows of values.
Rows2x2(d, m) ==
    <<<<m[Offset(d, <<0, 0>>)], m[Offset(d, <<0, 1>>)]>>,
      <<m[Offset(d, <<1, 0>>)], m[Offset(d, <<1, 1>>)]>>>>

SpecializedFloat2x2 ==
    /\ last = "fill_array_specialized"
    /\ arr.dtype = "float32"
    /\ arr.shape = <<2, 2>>

\* C3, as stated: fill_array_specialized on a float32 array of shape (2,2)
\* takes the float branch and leaves [[0,0],[0,2]].
C3_FloatFillLeavesProducts ==
    SpecializedFloat2x2 =>
        /\ result = "Used specialized 2D float view"
        /\ Rows2x2(arr, mem) = <<<<Float(0), Float(0)>>, <<Float(0), Float(2)>>>>

\* C3, amended: fill_array_specialized on a float32 array of shape (2,2)
\* takes the float branch and fills with i*j + 0.5, leaving
\* [[0.5,0.5],[0.5,1.5]].
C3_FloatFillLeavesProductsPlusHalf ==
    SpecializedFloat2x2 =>
        /\ result = "Used specialized 2D float view"
        /\ Rows2x2(arr, mem) =
              <<<<Half, Half>>, <<Half, Float(1) + Half>>>>

\* C3 witness: the float branch has run on a (2,2) float32 array.
C3_FloatBranchRan ==
    SpecializedFloat2x2 /\ result = "Used specialized 2D float view"

\* C4: the branch fill_array_specialized takes depends on (dtype, ndim)
\* alone: (float32,2) the float view, else (int32,2) the int32 view, else
\* Unsupported, which writes no element.
C4_BranchByDtypeAndNdim ==
    last = "fill_array_specialized" =>
        /\ result =
              IF arr.dtype = "float32" /\ arr.ndim = 2
              THEN "Used specialized 2D float view"
              ELSE IF arr.dtype = "int32" /\ arr.ndim = 2
              THEN "Used specialized 2D int32 view"
              ELSE "Unsupported array type or dimension"
        /\ result = "Unsupported array type or dimension" =>
              mem = old /\ accesses = 0

\* C4 witness: a float64 array of three axes came back Unsupported.
C4_Float64Rank3Unsupported ==
    /\ last = "fill_array_specialized"
    /\ arr.dtype = "float64"
    /\ arr.ndim = 3
    /\ result = "Unsupported array type or dimension"

ElementLoops ==
    {"fill_array_optimized", "fill_array_regular", "fill_array_specialized",
     "process_rgb_image"}

Normal ==
    {"void", "Used specialized 2D float view",
     "Used specialized 2D int32 view", "Unsupported array type or dimension"}

\* C8: on an array with an extent of 0 each fill/processing function
\* returns normally, executes no loop body and changes no memory cell.
C8_ZeroExtentNoAccess ==
    (last \in ElementLoops /\ HasZeroExtent(arr)) =>
        /\ result \in Normal
        /\ accesses = 0
        /\ mem = old

\* C8 witness: fill_array_optimized has run on an array of shape (0,3).
C8_FilledZeroRows ==
    /\ last = "fill_array_optimized"
    /\ arr.shape = <<0, RGBChannels>>

\* C9: no array handed to the caller is read or converted after the storage
\* its data pointer refers to has ceased to exist.
C9_NoReadOfDeadStorage == deadReads = 0

\* C10: after map_matrix every element of an accepted 2D float32 array holds
\* twice its previous value and every other cell is as it was; an array of
\* another rank is rejected and left unchanged.
C10_MapMatrixDoublesElementsOnly ==
    last = "map_matrix" =>
        IF arr.ndim = 2
        THEN /\ result = "void"
             /\ \A o \in DOMAIN mem :
                   mem[o] = IF o \in Elements(arr) THEN 2 * old[o] ELSE old[o]
        ELSE /\ result = "Expected a 2D array"
             /\ mem = old

====
